---- MODULE Spec2Model ----
(***************************************************************************)
(* Bill-splitting client: the useUser identity hook, the BillPage data     *)
(* effect (fetchData and the realtime claims channel), handleClaim and the *)
(* myTotals allocation.                                                    *)
(*                                                                         *)
(* Conventions.  A nullable JavaScript value is a sequence of length at    *)
(* most one: <<>> is null/undefined, <<v>> is the value v.  A string is a  *)
(* sequence of characters, so <<>> inside the option is the empty string.  *)
(* JavaScript numbers are modelled as exact rationals <<n, d>> in lowest   *)
(* terms with d > 0; rounding of IEEE doubles is not modelled.             *)
(***************************************************************************)
EXTENDS Integers, Sequences, FiniteSets, TLC

VARIABLES
    localStorage,  \* browser storage: [id, name], each a nullable string
    user,          \* useUser state `user`
    loading,       \* useUser state `loading`
    inputName,     \* BillPage state `inputName`
    uuidCount,     \* number of identifiers uuidv4() has produced
    apiUrl,        \* process.env.NEXT_PUBLIC_API_URL
    readsFail,     \* TRUE when a read of the store may come back without data
    bill,          \* BillPage state `bill`
    items,         \* BillPage state `items`
    claims,        \* BillPage state `claims`
    effect,        \* the data effect: "pending", "active" or "cleaned"
    channel,       \* realtime_claims: "none", "joined" or "removed"
    cycles,        \* the fetchData invocations, in order of issue
    dbBill,        \* external store: the row of table bills for billId
    dbClaims,      \* external store: the rows of table claims
    rowCount,      \* number of claim rows the store has created
    events,        \* change notifications not yet delivered, in order
    calls,         \* the handleClaim invocations, in order
    alertOpen,     \* TRUE while an alert() dialog blocks the page's script
    totals         \* the value of the myTotals memo at the last render

vars == <<localStorage, user, loading, inputName, uuidCount, apiUrl,
          readsFail, bill,
          items, claims, effect, effect, channel, cycles, dbBill, dbClaims, rowCount, events,
          calls, alertOpen, totals>>

envVars == <<apiUrl, readsFail>>
userVars == <<localStorage, user, loading, inputName, uuidCount>>
pageVars == <<bill, items, claims>>
storeVars == <<dbBill, dbClaims, rowCount, events>>
claimVars == <<calls, alertOpen>>

----------------------------------------------------------------------------
(* Bounds *)

MaxNameLen == 2
MaxUuids == 2
MaxItems == 2
MaxClaimsLen == 3
MaxCycles == 2
MaxRows == 1
MaxCalls == 1

----------------------------------------------------------------------------
(* Nullable values and numbers *)

Null == <<>>
Some(v) == <<v>>
Val(o) == o[1]

Abs(n) == IF n < 0 THEN -n ELSE n

RECURSIVE GCD(_, _)
GCD(a, b) == IF b = 0 THEN a ELSE GCD(b, a % b)

\* the rational n/d in lowest terms, d > 0
Rat(n, d) ==
    LET g == GCD(Abs(n), Abs(d))
        s == IF d < 0 THEN -1 ELSE 1
    IN  <<(s * n) \div g, (s * d) \div g>>

Num(n) == <<n, 1>>
Zero == Num(0)
RAdd(a, b) == Rat(a[1] * b[2] + b[1] * a[2], a[2] * b[2])
RMul(a, b) == Rat(a[1] * b[1], a[2] * b[2])
RDiv(a, b) == Rat(a[1] * b[2], a[2] * b[1])
RPos(a) == a[1] > 0

----------------------------------------------------------------------------
(* Allocation: myTotals *)

Characters == {" ", "a"}
UserA == [id |-> <<1>>, name |-> <<"a">>]
UserIds == {<<1>>, <<2>>}
Prices == {-6, 0, 6}
Amounts == {0, 3}

ZeroTotals == [subtotal |-> Zero, tax |-> Zero, tip |-> Zero, total |-> Zero]

\* claims.filter(c => c.item_id === item.id)
getClaimants(cl, itemId) == SelectSeq(cl, LAMBDA c : c.item_id = itemId)

\* itemClaimants.some(c => c.user_id === user.id)
IsMine(itemClaimants, uid) ==
    \E k \in 1..Len(itemClaimants) : itemClaimants[k].user_id = uid

\* what one pass of the forEach body adds to mySubtotal for user uid
ItemShare(item, cl, uid) ==
    LET itemClaimants == getClaimants(cl, item.id)
    IN  IF IsMine(itemClaimants, uid)
        THEN RDiv(Num(item.unit_price), Num(Len(itemClaimants)))
        ELSE Zero

\* forEach that counts only claimed items in billSubtotal
RECURSIVE ForEachClaimedItem(_, _, _, _, _)
ForEachClaimedItem(its, i, cl, uid, acc) ==
    IF i > Len(its) THEN acc
    ELSE ForEachClaimedItem(its, i + 1, cl, uid,
            [billSubtotal |-> IF getClaimants(cl, its[i].id) # <<>>
                              THEN RAdd(acc.billSubtotal, Num(its[i].unit_price))
                              ELSE acc.billSubtotal,
             mySubtotal   |-> RAdd(acc.mySubtotal, ItemShare(its[i], cl, uid))])

\* items.forEach(...) from index i on, threading the two accumulators
RECURSIVE ForEachItem(_, _, _, _, _)
ForEachItem(its, i, cl, uid, acc) ==
    IF i > Len(its) THEN acc
    ELSE ForEachItem(its, i + 1, cl, uid,
            [billSubtotal |-> RAdd(acc.billSubtotal, Num(its[i].unit_price)),
             mySubtotal   |-> RAdd(acc.mySubtotal, ItemShare(its[i], cl, uid))])

myTotals(its, cl, b, u) ==
    IF u = Null \/ b = Null THEN ZeroTotals
    ELSE LET acc   == ForEachItem(its, 1, cl, Val(u).id,
                                  [billSubtotal |-> Zero, mySubtotal |-> Zero])
             ratio == IF RPos(acc.billSubtotal)
                      THEN RDiv(acc.mySubtotal, acc.billSubtotal) ELSE Zero
             myTax == RMul(Num(Val(b).tax_amount), ratio)
             myTip == RMul(Num(Val(b).tip_amount), ratio)
         IN  [subtotal |-> acc.mySubtotal, tax |-> myTax, tip |-> myTip,
              total |-> RAdd(RAdd(acc.mySubtotal, myTax), myTip)]

BillRows == [tax_amount : Amounts, tip_amount : Amounts]

\* the page before any data has arrived
PageInit ==
    /\ bill = Null /\ items = <<>> /\ claims = <<>>
    /\ totals = ZeroTotals

Quiet ==
    /\ localStorage = [id |-> Null, name |-> Null]
    /\ loading = TRUE /\ inputName = <<>> /\ uuidCount = 0
    /\ apiUrl = Null /\ readsFail = FALSE
    /\ effect = "pending" /\ channel = "none" /\ cycles = <<>>
    /\ dbBill = Null /\ dbClaims = {} /\ rowCount = 0 /\ events = <<>>
    /\ calls = <<>> /\ alertOpen = FALSE

InitTotals == PageInit /\ Quiet /\ user = Null

\* Renders after one dependency of the memo changed; each recomputes totals.
RenderItems ==
    \E v \in {<<>>} \cup {Append(items, [id |-> Len(items) + 1, unit_price |-> p]) :
                            p \in Prices} :
        /\ Len(v) <= MaxItems
        /\ items' = v
        /\ totals' = myTotals(v, claims, bill, user)
        /\ UNCHANGED <<localStorage, user, loading, inputName, uuidCount,
                       envVars, bill, claims, effect, channel, cycles, storeVars, claimVars>>

RenderClaims ==
    \E v \in {<<>>} \cup {Append(claims, [id |-> 0, item_id |-> i, user_id |-> u]) :
                            i \in 1..MaxItems, u \in UserIds} :
        /\ Len(v) <= MaxClaimsLen
        /\ claims' = v
        /\ totals' = myTotals(items, v, bill, user)
        /\ UNCHANGED <<localStorage, user, loading, inputName, uuidCount,
                       envVars, bill, items, effect, channel, cycles, storeVars, claimVars>>

RenderBill ==
    \E v \in {Null} \cup {Some(r) : r \in BillRows} :
        /\ bill' = v
        /\ totals' = myTotals(items, claims, v, user)
        /\ UNCHANGED <<localStorage, user, loading, inputName, uuidCount,
                       envVars, items, claims, effect, channel, cycles, storeVars, claimVars>>

RenderUser ==
    \E v \in {Null, Some(UserA)} :
        /\ user' = v
        /\ totals' = myTotals(items, claims, bill, v)
        /\ UNCHANGED <<localStorage, loading, inputName, uuidCount,
                       envVars, bill, items, claims, effect, channel, cycles, storeVars, claimVars>>

NextTotals == RenderItems \/ RenderClaims \/ RenderBill \/ RenderUser

SpecTotals == InitTotals /\ [][NextTotals]_vars

\* The reference allocation, over common denominators instead of rationals.
RECURSIVE Fact(_)
Fact(n) == IF n <= 1 THEN 1 ELSE n * Fact(n - 1)

RECURSIVE SumOver(_, _)
SumOver(S, f) ==
    IF S = {} THEN 0
    ELSE LET x == CHOOSE y \in S : TRUE IN f[x] + SumOver(S \ {x}, f)

ClaimCount(cl, itemId) == Cardinality({k \in 1..Len(cl) : cl[k].item_id = itemId})
ClaimedBy(its, cl, uid) ==
    {i \in 1..Len(its) :
        \E k \in 1..Len(cl) : cl[k].item_id = its[i].id /\ cl[k].user_id = uid}

RefTotals(its, cl, b, u) ==
    IF u = Null \/ b = Null THEN ZeroTotals
    ELSE LET L    == Fact(Len(cl))
             mine == ClaimedBy(its, cl, Val(u).id)
             subL == SumOver(mine, [i \in mine |->
                        its[i].unit_price * (L \div ClaimCount(cl, its[i].id))])
             all  == SumOver(1..Len(its), [i \in 1..Len(its) |-> its[i].unit_price])
             sub  == Rat(subL, L)
             ratio == IF all > 0 THEN Rat(subL, L * all) ELSE Zero
             tax  == RMul(Num(Val(b).tax_amount), ratio)
             tip  == RMul(Num(Val(b).tip_amount), ratio)
         IN  [subtotal |-> sub, tax |-> tax, tip |-> tip,
              total |-> RAdd(sub, RAdd(tax, tip))]

\* C3: the memoised totals equal the reference allocation on every input:
\* zeros without a user or bill, else the user's equal-split subtotal and
\* the tax and tip prorated by subtotal over the sum of ALL item prices
\* (ratio 0 when that sum is not positive).
C3_TotalsMatchReference == totals = RefTotals(items, claims, bill, user)

\* the user claims one item alone while another item is unclaimed, and the
\* tax share is diluted by the unclaimed item
C3_Witness ==
    /\ user # Null /\ bill # Null /\ Len(items) = 2
    /\ ClaimedBy(items, claims, Val(user).id) = {1}
    /\ ClaimCount(claims, items[1].id) = 1
    /\ items[1].unit_price = 6 /\ items[2].unit_price = 6
    /\ Val(bill).tax_amount = 3
    /\ totals.subtotal = Num(6) /\ totals.tax = <<3, 2>>

----------------------------------------------------------------------------
(* Identity: useUser and the "Who are you?" modal *)

Names == UNION {[1..n -> Characters] : n \in 0..MaxNameLen}

\* String.prototype.trim
RECURSIVE TrimLeft(_)
TrimLeft(s) == IF s # <<>> /\ Head(s) = " " THEN TrimLeft(Tail(s)) ELSE s
RECURSIVE TrimRight(_)
TrimRight(s) ==
    IF s # <<>> /\ s[Len(s)] = " " THEN TrimRight(SubSeq(s, 1, Len(s) - 1)) ELSE s
Trim(s) == TrimRight(TrimLeft(s))

\* JavaScript truthiness of a nullable string
Truthy(o) == o # Null /\ Val(o) # <<>>

\* uuidv4(): the n-th identifier produced
uuidv4(n) == <<n>>

\* the body of the hook's mount effect: what it passes to setUser, if anything
ResolveIdentity(ls) ==
    IF Truthy(ls.id) /\ Truthy(ls.name)
    THEN Some([id |-> Val(ls.id), name |-> Val(ls.name)])
    ELSE Null

\* localStorage as some earlier session may have left it
StoredIds == {Null, Some(<<>>), Some(uuidv4(0))}
StoredNames == {Null} \cup {Some(n) : n \in Names}

InitUser ==
    /\ localStorage \in [id : StoredIds, name : StoredNames]
    /\ user = Null /\ loading = TRUE /\ inputName = <<>> /\ uuidCount = 0
    /\ PageInit
    /\ apiUrl = Null /\ readsFail = FALSE
    /\ effect = "pending" /\ channel = "none" /\ cycles = <<>>
    /\ dbBill = Null /\ dbClaims = {} /\ rowCount = 0 /\ events = <<>>
    /\ calls = <<>> /\ alertOpen = FALSE

\* useEffect(() => {...}, []) of useUser
UseUserEffect ==
    /\ loading
    /\ user' = IF ResolveIdentity(localStorage) # Null
               THEN ResolveIdentity(localStorage) ELSE user
    /\ loading' = FALSE
    /\ UNCHANGED <<localStorage, inputName, uuidCount, envVars, pageVars, effect, channel,
                   cycles, storeVars, claimVars>>
    /\ totals' = myTotals(items', claims', bill', user')

\* onChange of the name input, rendered while there is no user
SetInputName ==
    /\ user = Null
    /\ \E n \in Names : n # inputName /\ inputName' = n
    /\ UNCHANGED <<localStorage, user, loading, uuidCount, envVars, pageVars,
                   effect, channel, cycles, storeVars, claimVars, totals>>

\* registerUser that persists the trimmed name but keeps the raw one in state
registerUserTrimmed(name) ==
    LET newId == uuidv4(uuidCount + 1)
    IN  /\ uuidCount' = uuidCount + 1
        /\ localStorage' = [id |-> Some(newId), name |-> Some(Trim(name))]
        /\ user' = Some([id |-> newId, name |-> name])

registerUser(name) ==
    LET newId == uuidv4(uuidCount + 1)
    IN  /\ uuidCount' = uuidCount + 1
        /\ localStorage' = [id |-> Some(newId), name |-> Some(name)]
        /\ user' = Some([id |-> newId, name |-> name])

\* onClick of "Join Party": rendered while !user, disabled while the
\* trimmed input is empty
JoinParty ==
    /\ user = Null
    /\ Trim(inputName) # <<>>
    /\ uuidCount < MaxUuids
    /\ registerUser(inputName)
    /\ UNCHANGED <<loading, inputName, envVars, pageVars, effect, channel, cycles,
                   storeVars, claimVars>>
    /\ totals' = myTotals(items', claims', bill', user')

\* a reload of the page: hook and page state start over, storage persists
Reload ==
    /\ ~loading
    /\ user' = Null /\ loading' = TRUE /\ inputName' = <<>>
    /\ UNCHANGED <<localStorage, uuidCount, envVars, pageVars, effect, channel, cycles,
                   storeVars, claimVars>>
    /\ totals' = myTotals(items', claims', bill', user')

NextUser == UseUserEffect \/ SetInputName \/ JoinParty \/ Reload

SpecUser == InitUser /\ [][NextUser]_vars

BothStored ==
    /\ localStorage.id # Null /\ Val(localStorage.id) # <<>>
    /\ localStorage.name # Null /\ Val(localStorage.name) # <<>>

\* C8: whenever the hook holds a user, a fresh resolution from storage gives
\* a user with the same id and name (so a registration survives a reload),
\* and once resolution has run a user is held exactly when both stored
\* values are present and non-empty.
C8_IdentityRoundTrip ==
    /\ user # Null =>
          /\ BothStored
          /\ Val(localStorage.id) = Val(user).id
          /\ Val(localStorage.name) = Val(user).name
          /\ ResolveIdentity(localStorage) = user
    /\ ~loading => (user # Null <=> BothStored)

\* a registered identity, reloaded and resolved again from storage
C8_Witness ==
    /\ uuidCount > 0 /\ ~loading /\ inputName = <<>>
    /\ user = Some([id |-> uuidv4(uuidCount), name |-> <<" ", "a">>])

----------------------------------------------------------------------------
(* The bill page: external store, fetchData, the realtime channel *)

BillId == 1
ApiUrl == Some(<<"u">>)
UserB == <<2>>

\* table items: one item of this bill and one of another bill
DbItems ==
    { [id |-> 1, bill_id |-> BillId, unit_price |-> 12],
      [id |-> 2, bill_id |-> BillId + 1, unit_price |-> 6] }

\* table bills: the row of this bill
DbBill == [id |-> BillId, tax_amount |-> 3, tip_amount |-> 3]

\* from('items').select('*').eq('bill_id', billId).order('unit_price', desc)
ItemsQuery(billId) ==
    LET S == {r \in DbItems : r.bill_id = billId}
    IN  {s \in [1..Cardinality(S) -> S] :
            /\ \A i, j \in DOMAIN s : i # j => s[i] # s[j]
            /\ \A i, j \in DOMAIN s : i < j => s[i].unit_price >= s[j].unit_price}

\* a set of rows as a sequence, in the order the rows were created
RECURSIVE RowsById(_)
RowsById(S) ==
    IF S = {} THEN <<>>
    ELSE LET r == CHOOSE x \in S : \A y \in S : x.id <= y.id
         IN  <<r>> \o RowsById(S \ {r})

\* a claims read that is not restricted to the cycle's items
AllItemIds(itemsData) == {r.id : r \in DbItems}

\* itemsData?.map(i => i.id) || []
ClaimsQueryIds(itemsData) ==
    IF itemsData = Null THEN {}
    ELSE {Val(itemsData)[i].id : i \in DOMAIN Val(itemsData)}

\* from('claims').select('*').in('item_id', ids)
ClaimsQuery(ids) == RowsById({r \in dbClaims : r.item_id \in ids})

\* { data, error } of a read: the data, or none when the read failed
ReadResults(data) == IF readsFail THEN {data, Null} ELSE {data}

NewCycle == [pc |-> "bill", itemsData |-> Null, resp |-> Null]
DoneCycle == [pc |-> "done", itemsData |-> Null, resp |-> Null]

\* fetchData(): the call itself, up to its first await
fetchData(cs) == Append(cs, NewCycle)

Init ==
    /\ localStorage \in {[id |-> Null, name |-> Null],
                         [id |-> Some(UserA.id), name |-> Some(UserA.name)]}
    /\ user = Null /\ loading = TRUE /\ inputName = <<>> /\ uuidCount = 0
    /\ apiUrl \in {Null, ApiUrl}
    /\ readsFail \in BOOLEAN
    /\ PageInit
    /\ effect = "pending" /\ channel = "none" /\ cycles = <<>>
    /\ dbBill = Some(DbBill) /\ dbClaims = {} /\ rowCount = 0
    /\ events = <<>>
    /\ calls = <<>> /\ alertOpen = FALSE

\* useEffect(..., [billId]) of BillPage: first fetch and subscription.
\* Effects of one component run in the order of their hooks, and useUser()
\* is called first.
PageEffect ==
    /\ ~loading
    /\ effect = "pending"
    /\ effect' = "active"
    /\ cycles' = fetchData(cycles)
    /\ channel' = "joined"
    /\ UNCHANGED <<userVars, envVars, pageVars, storeVars, claimVars, totals>>

\* await of the bills read resumes: the row (the store never changes it),
\* or no data when the read failed
OnBill(c) ==
    /\ ~alertOpen
    /\ cycles[c].pc = "bill"
    /\ \E billData \in ReadResults(dbBill) :
          bill' = IF billData # Null THEN billData ELSE bill
    /\ cycles' = [cycles EXCEPT ![c].pc = "items"]
    /\ UNCHANGED <<userVars, envVars, items, claims, effect, channel, storeVars,
                   claimVars>>
    /\ totals' = myTotals(items', claims', bill', user')

\* await of the items read resumes; the claims read is issued
OnItems(c) ==
    /\ ~alertOpen
    /\ cycles[c].pc = "items"
    /\ \E itemsData \in UNION {ReadResults(Some(s)) : s \in ItemsQuery(BillId)} :
          /\ items' = IF itemsData # Null THEN Val(itemsData) ELSE items
          /\ cycles' = [cycles EXCEPT ![c].pc = "claims",
                                      ![c].itemsData = itemsData]
    /\ UNCHANGED <<userVars, envVars, bill, claims, effect, channel, storeVars,
                   claimVars>>
    /\ totals' = myTotals(items', claims', bill', user')

\* the store answers the claims read of cycle c, or the read fails
ServeClaims(c) ==
    /\ cycles[c].pc = "claims"
    /\ \E r \in ReadResults(Some(ClaimsQuery(ClaimsQueryIds(cycles[c].itemsData)))) :
          cycles' = [cycles EXCEPT ![c].pc = "claimsData", ![c].resp = r]
    /\ UNCHANGED <<userVars, envVars, pageVars, effect, channel, storeVars,
                   claimVars, totals>>

\* a claims completion that drops the data of all but the newest cycle
OnClaimsNewestOnly(c) ==
    /\ ~alertOpen
    /\ cycles[c].pc = "claimsData"
    /\ claims' = IF cycles[c].resp # Null /\ c = Len(cycles)
                 THEN Val(cycles[c].resp) ELSE claims
    /\ cycles' = [cycles EXCEPT ![c] = DoneCycle]
    /\ UNCHANGED <<userVars, envVars, bill, items, effect, channel, storeVars,
                   claimVars>>
    /\ totals' = myTotals(items', claims', bill', user')

\* await of the claims read resumes
OnClaims(c) ==
    /\ ~alertOpen
    /\ cycles[c].pc = "claimsData"
    /\ claims' = IF cycles[c].resp # Null THEN Val(cycles[c].resp) ELSE claims
    /\ cycles' = [cycles EXCEPT ![c] = DoneCycle]
    /\ UNCHANGED <<userVars, envVars, bill, items, effect, channel, storeVars,
                   claimVars>>
    /\ totals' = myTotals(items', claims', bill', user')

\* the optimistic update of the channel callback
OnPayload(cl, e) ==
    IF e.eventType = "INSERT" THEN Append(cl, e.row)
    ELSE IF e.eventType = "DELETE" THEN SelectSeq(cl, LAMBDA c : c.id # e.row.id)
    ELSE cl

\* the channel hands the next notification to the callback
Notify ==
    /\ ~alertOpen
    /\ channel = "joined"
    /\ events # <<>>
    /\ claims' = OnPayload(claims, Head(events))
    /\ cycles' = fetchData(cycles)
    /\ events' = Tail(events)
    /\ UNCHANGED <<userVars, envVars, bill, items, effect, channel, dbBill,
                   dbClaims, rowCount, claimVars>>
    /\ totals' = myTotals(items', claims', bill', user')

\* a cleanup that leaves the channel subscribed
keepChannel(ch) == ch

\* supabase.removeChannel(channel)
removeChannel(ch) == "removed"

\* the effect's cleanup: the view unmounts or its bill id changes
Cleanup ==
    /\ effect = "active"
    /\ effect' = "cleaned"
    /\ channel' = removeChannel(channel)
    /\ UNCHANGED <<userVars, envVars, pageVars, cycles, storeVars, claimVars,
                   totals>>

\* a notification that reaches a client whose channel is gone
Discard ==
    /\ channel = "removed"
    /\ events # <<>>
    /\ events' = Tail(events)
    /\ UNCHANGED <<userVars, envVars, pageVars, effect, channel, cycles, dbBill,
                   dbClaims, rowCount, claimVars, totals>>

\* the store publishes a change of table claims to a joined channel
Publish(type, row) ==
    IF channel = "joined"
    THEN Append(events, [eventType |-> type, row |-> row])
    ELSE events

\* the model stops changing table claims once the notifications it has
\* published would start more than MaxCycles fetch cycles
WithinBudget == channel = "none" \/ Len(cycles) + Len(events) < MaxCycles

\* another participant claims an item, of this bill or of another one
DbInsert ==
    /\ rowCount < MaxRows
    /\ WithinBudget
    /\ \E i \in {r.id : r \in DbItems} :
          LET row == [id |-> rowCount + 1, item_id |-> i, user_id |-> UserB]
          IN  /\ dbClaims' = dbClaims \cup {row}
              /\ events' = Publish("INSERT", row)
    /\ rowCount' = rowCount + 1
    /\ UNCHANGED <<userVars, envVars, pageVars, effect, channel, cycles, dbBill,
                   claimVars, totals>>

\* an external process deletes a claim
DbDelete ==
    /\ WithinBudget
    /\ \E row \in dbClaims :
          /\ dbClaims' = dbClaims \ {row}
          /\ events' = Publish("DELETE", row)
    /\ UNCHANGED <<userVars, envVars, pageVars, effect, channel, cycles, dbBill,
                   rowCount, claimVars, totals>>

----------------------------------------------------------------------------
(* handleClaim and the claim endpoint *)

\* a finished invocation; posts is the number of requests it issued
DoneCall(n) == [pc |-> "done", item_id |-> 0, user_id |-> Null, posts |-> n]

\* onClick of a rendered item: handleClaim(item.id) up to its await
handleClaim(itemId) ==
    IF user = Null THEN calls' = Append(calls, DoneCall(0))
    ELSE IF apiUrl = Null THEN calls' = Append(calls, DoneCall(0))
    ELSE calls' = Append(calls, [pc |-> "sent", item_id |-> itemId,
                                 user_id |-> Some(Val(user).id), posts |-> 1])

TapItem ==
    /\ ~alertOpen
    /\ effect = "active"
    /\ Len(calls) < MaxCalls
    /\ \E i \in DOMAIN items : handleClaim(items[i].id)
    /\ UNCHANGED <<userVars, envVars, pageVars, effect, channel, cycles,
                   storeVars, alertOpen, totals>>

\* the endpoint records the claim and answers 2xx
ApiAccept(k) ==
    /\ calls[k].pc = "sent"
    /\ rowCount < MaxRows
    /\ WithinBudget
    /\ LET row == [id |-> rowCount + 1, item_id |-> calls[k].item_id,
                   user_id |-> Val(calls[k].user_id)]
       IN  /\ dbClaims' = dbClaims \cup {row}
           /\ events' = Publish("INSERT", row)
    /\ rowCount' = rowCount + 1
    /\ calls' = [calls EXCEPT ![k].pc = "ok"]
    /\ UNCHANGED <<userVars, envVars, pageVars, effect, channel, cycles, dbBill,
                   alertOpen, totals>>

\* the catch block of handleClaim: console.error, then alert
CatchBlock(k) ==
    /\ calls' = [calls EXCEPT ![k] = DoneCall(calls[k].posts)]
    /\ alertOpen' = TRUE

\* fetch() rejects: the request or its response was lost
NetworkFail(k) ==
    /\ ~alertOpen
    /\ calls[k].pc \in {"sent", "ok"}
    /\ CatchBlock(k)
    /\ UNCHANGED <<userVars, envVars, pageVars, effect, channel, cycles,
                   storeVars, totals>>

\* a success path that also appends the claim to the local claims
OnResponseOkOptimistic(k) ==
    /\ ~alertOpen
    /\ calls[k].pc = "ok"
    /\ claims' = Append(claims, [id |-> 0, item_id |-> calls[k].item_id,
                                 user_id |-> Val(calls[k].user_id)])
    /\ calls' = [calls EXCEPT ![k] = DoneCall(calls[k].posts)]
    /\ UNCHANGED <<userVars, envVars, bill, items, effect, channel, cycles,
                   storeVars, alertOpen>>
    /\ totals' = myTotals(items', claims', bill', user')

\* fetch() resolves with response.ok
OnResponseOk(k) ==
    /\ ~alertOpen
    /\ calls[k].pc = "ok"
    /\ calls' = [calls EXCEPT ![k] = DoneCall(calls[k].posts)]
    /\ UNCHANGED <<userVars, envVars, pageVars, effect, channel, cycles,
                   storeVars, alertOpen, totals>>

\* a failure path that sends the request once more instead of alerting
OnResponseStatusRetry(k) ==
    /\ ~alertOpen
    /\ calls[k].pc = "sent"
    /\ calls' = IF calls[k].posts < 2
                THEN [calls EXCEPT ![k].posts = calls[k].posts + 1]
                ELSE [calls EXCEPT ![k] = DoneCall(calls[k].posts)]
    /\ alertOpen' = (calls[k].posts >= 2)
    /\ UNCHANGED <<userVars, envVars, pageVars, effect, channel, cycles,
                   storeVars, totals>>

\* fetch() resolves with a non-2xx status, which the endpoint answers
\* without recording anything: throw, then the catch block
OnResponseStatus(k) ==
    /\ ~alertOpen
    /\ calls[k].pc = "sent"
    /\ CatchBlock(k)
    /\ UNCHANGED <<userVars, envVars, pageVars, effect, channel, cycles,
                   storeVars, totals>>

\* the user closes the alert dialog
DismissAlert ==
    /\ alertOpen
    /\ alertOpen' = FALSE
    /\ UNCHANGED <<userVars, envVars, pageVars, effect, channel, cycles,
                   storeVars, calls, totals>>

Next ==
    \/ UseUserEffect
    \/ PageEffect
    \/ \E c \in DOMAIN cycles : OnBill(c)
    \/ \E c \in DOMAIN cycles : OnItems(c)
    \/ \E c \in DOMAIN cycles : ServeClaims(c)
    \/ \E c \in DOMAIN cycles : OnClaims(c)
    \/ Notify
    \/ Cleanup
    \/ Discard
    \/ DbInsert
    \/ DbDelete
    \/ TapItem
    \/ \E k \in DOMAIN calls : ApiAccept(k)
    \/ \E k \in DOMAIN calls : NetworkFail(k)
    \/ \E k \in DOMAIN calls : OnResponseOk(k)
    \/ \E k \in DOMAIN calls : OnResponseStatus(k)
    \/ DismissAlert

Spec == Init /\ [][Next]_vars

----------------------------------------------------------------------------
(* Properties of the bill page *)

BillItemIds == {r.id : r \in {x \in DbItems : x.bill_id = BillId}}
StoreClaims == {r \in dbClaims : r.item_id \in BillItemIds}
LocalClaims == {claims[i] : i \in DOMAIN claims}
AllCyclesDone == \A c \in DOMAIN cycles : cycles[c].pc = "done"
InFlight(c) == cycles[c].pc # "done"

NextPc(pc) ==
    CASE pc = "bill" -> "items"
      [] pc = "items" -> "claims"
      [] pc = "claims" -> "claimsData"
      [] OTHER -> "done"

\* the callback ran in this step
Notified == channel = "joined" /\ events # <<>> /\ events' = Tail(events)
\* the claims read of cycle c completed in this step
ClaimsCompleted(c) == cycles[c].pc = "claimsData" /\ cycles'[c].pc = "done"

\* C1: once a notification has been delivered, every notification has been
\* handled and every fetch cycle has completed, without any read having
\* failed, the local claims are exactly the store's claims on the bill's
\* items.
C1_ResyncEqualsStore ==
    (/\ ~readsFail /\ effect = "active"
     /\ Len(cycles) >= 2 /\ AllCyclesDone /\ events = <<>>)
    => /\ LocalClaims = StoreClaims
       /\ Len(claims) = Cardinality(StoreClaims)

\* C2: fetch cycles overlap and none is cancelled: a notification starts a
\* new cycle next to those in flight, every cycle advances only to its next
\* read, and whichever read completes writes its data to the snapshot,
\* whatever the order of issue.
C2_LastCompletionWins ==
    [][/\ \A c \in DOMAIN cycles :
            /\ c \in DOMAIN cycles'
            /\ cycles'[c].pc \in {cycles[c].pc, NextPc(cycles[c].pc)}
            /\ (ClaimsCompleted(c) /\ cycles[c].resp # Null)
                  => claims' = Val(cycles[c].resp)
            /\ (cycles[c].pc = "items" /\ cycles'[c].pc = "claims"
                  /\ cycles'[c].itemsData # Null)
                  => items' = Val(cycles'[c].itemsData)
            /\ (cycles[c].pc = "bill" /\ cycles'[c].pc = "items" /\ ~readsFail)
                  => bill' = dbBill
       /\ (Notified /\ \E c \in DOMAIN cycles : InFlight(c))
            => /\ Len(cycles') = Len(cycles) + 1
               /\ \A c \in DOMAIN cycles : cycles'[c] = cycles[c]]_vars

\* two cycles overlap and the older one is about to overwrite the claims
\* the younger one has already written
C2_Witness ==
    /\ Len(cycles) >= 2
    /\ cycles[1].pc = "claimsData" /\ cycles[1].resp # Null
    /\ cycles[2].pc = "done"
    /\ claims # <<>> /\ LocalClaims = StoreClaims
    /\ Val(cycles[1].resp) # claims

RECURSIVE RSum(_, _)
RSum(S, f) ==
    IF S = {} THEN Zero
    ELSE LET x == CHOOSE y \in S : TRUE IN RAdd(f[x], RSum(S \ {x}, f))

\* C4: in every local snapshot, for every item with a claim, the shares of
\* the distinct users claiming it add up to the item's price.
C4_SharesSumToPrice ==
    \A i \in DOMAIN items :
        LET cl == getClaimants(claims, items[i].id)
            users == {cl[k].user_id : k \in DOMAIN cl}
        IN  cl # <<>> =>
              RSum(users, [u \in users |-> ItemShare(items[i], claims, u)])
                 = Num(items[i].unit_price)

\* C5: a step of handleClaim, from the tap to the catch block, leaves bill,
\* items and claims as they are; the claims change only when the channel
\* callback runs or a cycle's claims read completes.
C5_HandleClaimFrame ==
    [][/\ (calls' # calls \/ alertOpen' # alertOpen) => UNCHANGED pageVars
       /\ claims' # claims =>
            (Notified \/ \E c \in DOMAIN cycles : ClaimsCompleted(c))]_vars

\* the endpoint has recorded this user's claim and handleClaim has
\* returned, while the local claims do not show it yet
C5_Witness ==
    /\ calls # <<>> /\ calls[1].pc = "done" /\ calls[1].posts = 1
    /\ \E r \in dbClaims : r.user_id = UserA.id /\ r \notin LocalClaims
    /\ events # <<>>

\* C6: a claim action issues no request when the user is absent or the
\* endpoint is not configured, and exactly one otherwise; no later step
\* issues another request for it.
C6_OnePostPerClaim ==
    [][/\ Len(calls') >= Len(calls)
       /\ \A k \in DOMAIN calls' \ DOMAIN calls :
            /\ (user = Null \/ apiUrl = Null)
                  => calls'[k].posts = 0 /\ calls'[k].pc = "done"
            /\ (user # Null /\ apiUrl # Null)
                  => calls'[k].posts = 1 /\ calls'[k].pc = "sent"
       /\ \A k \in DOMAIN calls :
            /\ calls'[k].posts = calls[k].posts
            /\ calls'[k].pc = "sent" => calls[k].pc = "sent"]_vars

\* a request failed, its alert was dismissed, and it was not sent again
C6_Witness ==
    /\ calls # <<>> /\ calls[1].pc = "done" /\ calls[1].posts = 1
    /\ dbClaims = {} /\ rowCount = 0 /\ ~alertOpen /\ user # Null

\* C7: every failed submission opens an alert: the endpoint is not
\* configured, the request fails in transport, or the status is not 2xx.
C7_FailureAlerts ==
    [][/\ (Len(calls') > Len(calls) /\ user # Null /\ apiUrl = Null)
            => alertOpen'
       /\ \A k \in DOMAIN calls :
            (calls[k].pc = "sent" /\ calls'[k].pc = "done") => alertOpen']_vars

\* C9: every notification delivered to the joined channel starts a fetch
\* cycle at its bill read; a cycle moves only from the bill read to the
\* items read to the claims read; and the claims read returns the claims
\* on the items its own items read returned.
C9_RefetchInOrder ==
    [][/\ Notified => cycles' = Append(cycles, NewCycle)
       /\ Len(cycles') > Len(cycles) => cycles'[Len(cycles')].pc = "bill"
       /\ \A c \in DOMAIN cycles :
            /\ cycles'[c].pc \in {cycles[c].pc, NextPc(cycles[c].pc)}
            /\ cycles[c].pc \in {"claims", "claimsData"}
                  => cycles'[c].pc = "done" \/ cycles'[c].itemsData = cycles[c].itemsData
            /\ (cycles[c].pc = "claims" /\ cycles'[c].pc = "claimsData"
                  /\ cycles'[c].resp # Null)
                  => LET got == Val(cycles'[c].resp)
                         its == cycles[c].itemsData
                     IN  {got[i] : i \in DOMAIN got} =
                           {r \in dbClaims :
                              /\ its # Null
                              /\ \E i \in DOMAIN Val(its) : Val(its)[i].id = r.item_id}]_vars

\* a cycle started by a notification has read the items and holds the
\* store's claims on them, while a claim on another bill's item exists
C9_Witness ==
    /\ Len(cycles) >= 2
    /\ cycles[2].pc = "claimsData" /\ cycles[2].resp # Null
    /\ cycles[2].itemsData # Null
    /\ \E r \in dbClaims : r.item_id \notin BillItemIds

\* C10: once the effect is cleaned up the channel is removed, and from then
\* on no notification changes the local claims or starts a fetch cycle.
C10_NoCallbackAfterCleanup ==
    /\ [](effect = "cleaned" => channel = "removed")
    /\ [][effect = "cleaned" =>
            /\ effect' = "cleaned"
            /\ Len(cycles') = Len(cycles)
            /\ events' # events => claims' = claims]_vars

\* the view is gone while a notification is still on its way
C10_Witness ==
    /\ effect = "cleaned" /\ channel = "removed"
    /\ events # <<>> /\ Head(events).eventType = "INSERT"
    /\ Head(events).row.item_id \in BillItemIds

====
